---- MODULE Spec2Model ----
\* StarkNet key store (core/services/keystore/starknet.go): the lifecycle
\* methods of `starknet`, the keystoreAdapter and the StarknetLooppSigner,
\* run by concurrent callers over one key ring guarded by a RWMutex.
EXTENDS Integers, Sequences, FiniteSets, TLC

VARIABLES keyRing, locked, rw, pc, call, ret

vars == <<keyRing, locked, rw, pc, call, ret>>

-----------------------------------------------------------------------------
\* Bounds of the model.

\* private scalars 1..MaxScalar are the keys the callers and the generator use
MaxScalar == 2
\* byte width of one signature component (32 in the relay codec; scaled)
FieldWidth == 2

Procs == {"p1", "p2"}
NoProc == "none"

Scalars == 1..MaxScalar
Passwords == {"pw", "bad"}

-----------------------------------------------------------------------------
\* Values.

Key(n) == [priv |-> n]
\* starkkey.Key{}
ZeroKey == Key(0)
Keys == {Key(n) : n \in Scalars}

\* starkkey.Key.ID(): derived deterministically from the public key
ID(key) == 2 * key.priv + 1
\* starkkey.Key.ToPrivKey()
ToPrivKey(key) == key.priv

NoId == 0
\* the identifiers the callers ask for: those of Keys, in the ring or not
Ids == {ID(k) : k \in Keys}

\* errors: kind, the identifier it names, and the contexts wrapped around it
Err(kind, id) == [kind |-> kind, id |-> id, wrap |-> <<>>]
Wrap(e, ctx) == [e EXCEPT !.wrap = <<ctx>> \o @]
nil == Err("nil", NoId)
ErrLocked == Err("Locked", NoId)
KeyNotFoundError(id) == Err("NotFound", id)
AlreadyExists(id) == Err("AlreadyExists", id)

\* []byte: a nil slice and an empty non-nil slice are different values
Bytes(b) == [isNil |-> FALSE, b |-> b]
NilBytes == [isNil |-> TRUE, b |-> <<>>]
\* *big.Int: NilInt is the nil pointer
NilInt == 0 - 1

EmptyRing == [i \in {} |-> ZeroKey]
RingOf(S) == [i \in {ID(k) : k \in S} |-> CHOOSE k \in S : ID(k) = i]

-----------------------------------------------------------------------------
\* Key-manager collaborator (keyManager: lock, isLocked, safeAddKey,
\* safeRemoveKey) and the starkkey package.

\* keyManager.isLocked()
isLocked(lck) == lck

\* keyManager.safeAddKey: inserts the key and persists the ring; when the save
\* fails the insertion is rolled back and the error returned
ErrPersist == Err("PersistFailed", NoId)
safeAddKey(ring, key, saved) ==
  IF saved
    THEN [ring |-> [i \in DOMAIN ring \cup {ID(key)} |->
                      IF i = ID(key) THEN key ELSE ring[i]],
          err |-> nil]
    ELSE [ring |-> ring, err |-> ErrPersist]

\* keyManager.safeRemoveKey: removes the key and persists the ring; when the
\* save fails the removal is rolled back and the error returned
safeRemoveKey(ring, key, saved) ==
  IF saved
    THEN [ring |-> [i \in DOMAIN ring \ {ID(key)} |-> ring[i]], err |-> nil]
    ELSE [ring |-> ring, err |-> ErrPersist]

\* starkkey.New(): a fresh key, or a generation error
ErrGenerate == Err("GenerateFailed", NoId)
NewOutcomes ==
  {[key |-> k, err |-> nil] : k \in Keys} \cup {[key |-> ZeroKey, err |-> ErrGenerate]}

\* starkkey.ToEncryptedJSON / FromEncryptedJSON: the blob carries the scalar
\* sealed under the password
PwCode(pw) == IF pw = "pw" THEN 1 ELSE 2
ErrDecrypt == Err("DecryptionFailed", NoId)
ToEncryptedJSON(key, pw) == [bytes |-> Bytes(<<key.priv, PwCode(pw)>>), err |-> nil]
FromEncryptedJSON(keyJSON, pw) ==
  IF /\ ~keyJSON.isNil
     /\ Len(keyJSON.b) = 2
     /\ keyJSON.b[1] \in Scalars
     /\ keyJSON.b[2] = PwCode(pw)
    THEN [key |-> Key(keyJSON.b[1]), err |-> nil]
    ELSE [key |-> ZeroKey, err |-> ErrDecrypt]

CorruptBlob == Bytes(<<>>)
Blobs == {ToEncryptedJSON(k, "pw").bytes : k \in Keys} \cup {CorruptBlob}

-----------------------------------------------------------------------------
\* starknet: the lifecycle methods, each as the function of the ring, the
\* locked flag, its arguments and the collaborators' answers that its body
\* computes while it holds the lock.

Out(ring, err, key, keys, bytes) ==
  [ring |-> ring, err |-> err, key |-> key, keys |-> keys, bytes |-> bytes]

\* getByID without the found check of lines 151-153
getByID_Unchecked(ring, id) ==
  IF id \notin DOMAIN ring
    THEN [key |-> ZeroKey, err |-> nil]
    ELSE [key |-> ring[id], err |-> nil]

getByID(ring, id) ==
  IF id \notin DOMAIN ring
    THEN [key |-> ZeroKey, err |-> KeyNotFoundError(id)]
    ELSE [key |-> ring[id], err |-> nil]

Get(ring, lck, id) ==
  IF isLocked(lck)
    THEN Out(ring, ErrLocked, ZeroKey, <<>>, NilBytes)
    ELSE Out(ring, getByID(ring, id).err, getByID(ring, id).key, <<>>, NilBytes)

\* the orders in which ranging over the map may visit its entries
Orders(ring) ==
  {o \in [1..Cardinality(DOMAIN ring) -> DOMAIN ring] :
     \A i \in DOMAIN ring : \E n \in DOMAIN o : o[n] = i}

\* GetAll stopping after the first key
GetAll_FirstOnly(ring, lck, order) ==
  IF isLocked(lck)
    THEN Out(ring, ErrLocked, ZeroKey, <<>>, NilBytes)
    ELSE Out(ring, nil, ZeroKey,
             [n \in {m \in DOMAIN order : m = 1} |-> ring[order[n]]], NilBytes)

GetAll(ring, lck, order) ==
  IF isLocked(lck)
    THEN Out(ring, ErrLocked, ZeroKey, <<>>, NilBytes)
    ELSE Out(ring, nil, ZeroKey, [n \in DOMAIN order |-> ring[order[n]]], NilBytes)

\* Create without the locked-flag check of lines 64-66
Create_NoLockCheck(ring, lck, gen, saved) ==
  IF gen.err # nil THEN Out(ring, gen.err, ZeroKey, <<>>, NilBytes)
  ELSE Out(safeAddKey(ring, gen.key, saved).ring,
           safeAddKey(ring, gen.key, saved).err, gen.key, <<>>, NilBytes)

Create(ring, lck, gen, saved) ==
  IF isLocked(lck) THEN Out(ring, ErrLocked, ZeroKey, <<>>, NilBytes)
  ELSE IF gen.err # nil THEN Out(ring, gen.err, ZeroKey, <<>>, NilBytes)
  ELSE Out(safeAddKey(ring, gen.key, saved).ring,
           safeAddKey(ring, gen.key, saved).err, gen.key, <<>>, NilBytes)

\* Add without the presence check of lines 80-82
Add_NoFoundCheck(ring, lck, key, saved) ==
  IF isLocked(lck) THEN Out(ring, ErrLocked, ZeroKey, <<>>, NilBytes)
  ELSE Out(safeAddKey(ring, key, saved).ring,
           safeAddKey(ring, key, saved).err, ZeroKey, <<>>, NilBytes)

Add(ring, lck, key, saved) ==
  IF isLocked(lck) THEN Out(ring, ErrLocked, ZeroKey, <<>>, NilBytes)
  ELSE IF ID(key) \in DOMAIN ring
    THEN Out(ring, AlreadyExists(ID(key)), ZeroKey, <<>>, NilBytes)
  ELSE Out(safeAddKey(ring, key, saved).ring,
           safeAddKey(ring, key, saved).err, ZeroKey, <<>>, NilBytes)

\* Delete handing back the zero key instead of the removed one
Delete_ZeroKey(ring, lck, id, saved) ==
  IF isLocked(lck) THEN Out(ring, ErrLocked, ZeroKey, <<>>, NilBytes)
  ELSE IF getByID(ring, id).err # nil
    THEN Out(ring, getByID(ring, id).err, ZeroKey, <<>>, NilBytes)
  ELSE Out(safeRemoveKey(ring, getByID(ring, id).key, saved).ring,
           safeRemoveKey(ring, getByID(ring, id).key, saved).err,
           ZeroKey, <<>>, NilBytes)

Delete(ring, lck, id, saved) ==
  IF isLocked(lck) THEN Out(ring, ErrLocked, ZeroKey, <<>>, NilBytes)
  ELSE IF getByID(ring, id).err # nil
    THEN Out(ring, getByID(ring, id).err, ZeroKey, <<>>, NilBytes)
  ELSE Out(safeRemoveKey(ring, getByID(ring, id).key, saved).ring,
           safeRemoveKey(ring, getByID(ring, id).key, saved).err,
           getByID(ring, id).key, <<>>, NilBytes)

\* Import going on with the zero key when decryption fails
Import_NoDecryptCheck(ring, lck, keyJSON, password, saved) ==
  IF isLocked(lck) THEN Out(ring, ErrLocked, ZeroKey, <<>>, NilBytes)
  ELSE IF ID(FromEncryptedJSON(keyJSON, password).key) \in DOMAIN ring
    THEN Out(ring, AlreadyExists(ID(FromEncryptedJSON(keyJSON, password).key)),
             ZeroKey, <<>>, NilBytes)
  ELSE Out(safeAddKey(ring, FromEncryptedJSON(keyJSON, password).key, saved).ring,
           safeAddKey(ring, FromEncryptedJSON(keyJSON, password).key, saved).err,
           FromEncryptedJSON(keyJSON, password).key, <<>>, NilBytes)

\* Import without the presence check of lines 110-112
Import_NoFoundCheck(ring, lck, keyJSON, password, saved) ==
  IF isLocked(lck) THEN Out(ring, ErrLocked, ZeroKey, <<>>, NilBytes)
  ELSE IF FromEncryptedJSON(keyJSON, password).err # nil
    THEN Out(ring,
             Wrap(FromEncryptedJSON(keyJSON, password).err,
                  "StarkNetKeyStore#ImportKey failed to decrypt key"),
             ZeroKey, <<>>, NilBytes)
  ELSE Out(safeAddKey(ring, FromEncryptedJSON(keyJSON, password).key, saved).ring,
           safeAddKey(ring, FromEncryptedJSON(keyJSON, password).key, saved).err,
           FromEncryptedJSON(keyJSON, password).key, <<>>, NilBytes)

Import(ring, lck, keyJSON, password, saved) ==
  IF isLocked(lck) THEN Out(ring, ErrLocked, ZeroKey, <<>>, NilBytes)
  ELSE IF FromEncryptedJSON(keyJSON, password).err # nil
    THEN Out(ring,
             Wrap(FromEncryptedJSON(keyJSON, password).err,
                  "StarkNetKeyStore#ImportKey failed to decrypt key"),
             ZeroKey, <<>>, NilBytes)
  ELSE IF ID(FromEncryptedJSON(keyJSON, password).key) \in DOMAIN ring
    THEN Out(ring, AlreadyExists(ID(FromEncryptedJSON(keyJSON, password).key)),
             ZeroKey, <<>>, NilBytes)
  ELSE Out(safeAddKey(ring, FromEncryptedJSON(keyJSON, password).key, saved).ring,
           safeAddKey(ring, FromEncryptedJSON(keyJSON, password).key, saved).err,
           FromEncryptedJSON(keyJSON, password).key, <<>>, NilBytes)

Export(ring, lck, id, password) ==
  IF isLocked(lck) THEN Out(ring, ErrLocked, ZeroKey, <<>>, NilBytes)
  ELSE IF getByID(ring, id).err # nil
    THEN Out(ring, getByID(ring, id).err, ZeroKey, <<>>, NilBytes)
  ELSE Out(ring, ToEncryptedJSON(getByID(ring, id).key, password).err, ZeroKey, <<>>,
           ToEncryptedJSON(getByID(ring, id).key, password).bytes)

\* EnsureKey without the non-empty check of lines 135-137
EnsureKey_NoLenCheck(ring, lck, gen, saved) ==
  IF isLocked(lck) THEN Out(ring, ErrLocked, ZeroKey, <<>>, NilBytes)
  ELSE IF gen.err # nil THEN Out(ring, gen.err, ZeroKey, <<>>, NilBytes)
  ELSE Out(safeAddKey(ring, gen.key, saved).ring,
           safeAddKey(ring, gen.key, saved).err, ZeroKey, <<>>, NilBytes)

EnsureKey(ring, lck, gen, saved) ==
  IF isLocked(lck) THEN Out(ring, ErrLocked, ZeroKey, <<>>, NilBytes)
  ELSE IF Cardinality(DOMAIN ring) > 0 THEN Out(ring, nil, ZeroKey, <<>>, NilBytes)
  ELSE IF gen.err # nil THEN Out(ring, gen.err, ZeroKey, <<>>, NilBytes)
  ELSE Out(safeAddKey(ring, gen.key, saved).ring,
           safeAddKey(ring, gen.key, saved).err, ZeroKey, <<>>, NilBytes)

-----------------------------------------------------------------------------
\* big.Int byte conversions and the relay's signature codec
\* (adapters.SignatureFromBigInts / SignatureFromBytes, signature.Bytes / Ints).

RECURSIVE Pow(_, _)
Pow(b, n) == IF n = 0 THEN 1 ELSE b * Pow(b, n - 1)

\* the largest value one signature component can hold
MaxField == Pow(256, FieldWidth) - 1

\* big.Int.Bytes(): big-endian, no leading zero byte, empty (non-nil) for 0
RECURSIVE BigIntBytes(_)
BigIntBytes(n) == IF n = 0 THEN <<>> ELSE Append(BigIntBytes(n \div 256), n % 256)

\* big.Int.SetBytes(): the big-endian unsigned value of the bytes
RECURSIVE SetBytes(_)
SetBytes(b) ==
  IF Len(b) = 0 THEN 0 ELSE 256 * SetBytes(SubSeq(b, 1, Len(b) - 1)) + b[Len(b)]

\* left-pads to the field width
padBytes(b) == [i \in 1..(FieldWidth - Len(b)) |-> 0] \o b

ErrNilInt == Err("EncodingError", NoId)
ErrTooWide == Err("EncodingError", NoId)
ErrMalformed == Err("MalformedSignature", NoId)

SignatureFromBigInts(x, y) ==
  IF x = NilInt \/ y = NilInt
    THEN [x |-> NilInt, y |-> NilInt, err |-> ErrNilInt]
    ELSE [x |-> x, y |-> y, err |-> nil]

\* signature.Bytes(): x then y, each padded to the field width
SigBytes(sig) ==
  IF Len(BigIntBytes(sig.x)) > FieldWidth \/ Len(BigIntBytes(sig.y)) > FieldWidth
    THEN [bytes |-> NilBytes, err |-> ErrTooWide]
    ELSE [bytes |-> Bytes(padBytes(BigIntBytes(sig.x)) \o padBytes(BigIntBytes(sig.y))),
          err |-> nil]

SignatureFromBytes(raw) ==
  IF Len(raw.b) # 2 * FieldWidth
    THEN [x |-> NilInt, y |-> NilInt, err |-> ErrMalformed]
    ELSE [x |-> SetBytes(SubSeq(raw.b, 1, FieldWidth)),
          y |-> SetBytes(SubSeq(raw.b, FieldWidth + 1, 2 * FieldWidth)),
          err |-> nil]

\* signature.Ints()
Ints(sig) == [x |-> sig.x, y |-> sig.y, err |-> nil]

-----------------------------------------------------------------------------
\* The curve primitive caigo.Curve.Sign(hash, priv): a pair within the field
\* range, or an error.

ErrCurve == Err("SigningFailed", NoId)
\* pairs whose bytes need padding, fill the width, or differ only in order
SamplePairs ==
  {<<1, 258>>, <<MaxField, 256>>, <<256, 255>>}
CurveOutcomes ==
  {[x |-> q[1], y |-> q[2], err |-> nil] : q \in SamplePairs}
  \cup {[x |-> NilInt, y |-> NilInt, err |-> ErrCurve]}

-----------------------------------------------------------------------------
\* keystoreAdapter and StarknetLooppSigner.

\* keystoreAdapter.Decode
\* Decode without the error check of lines 193-195
Decode_Unchecked(rawSignature) == Ints(SignatureFromBytes(rawSignature))

Decode(rawSignature) ==
  IF SignatureFromBytes(rawSignature).err # nil
    THEN [x |-> NilInt, y |-> NilInt,
          err |-> Wrap(SignatureFromBytes(rawSignature).err,
                       "error creating starknet signature from raw signature")]
    ELSE Ints(SignatureFromBytes(rawSignature))

\* keystoreAdapter.Sign, line 184: the digest handed to the wrapped signer
\* the zero digest handed over as a nil slice
HashBytes_NilForZero(hash) == IF hash = 0 THEN NilBytes ELSE Bytes(BigIntBytes(hash))

HashBytes(hash) == Bytes(BigIntBytes(hash))

\* keystoreAdapter.Sign, lines 185-188: from the wrapped signer's answer
\* `decodes` lists the buffers handed to Decode
\* the adapter handing the signer's error on as it is
AdapterSign_NoWrap(reply) ==
  IF reply.err # nil
    THEN [x |-> NilInt, y |-> NilInt, err |-> reply.err, decodes |-> <<>>]
    ELSE [x |-> Decode(reply.bytes).x, y |-> Decode(reply.bytes).y,
          err |-> Decode(reply.bytes).err, decodes |-> <<reply.bytes>>]

AdapterSign(reply) ==
  IF reply.err # nil
    THEN [x |-> NilInt, y |-> NilInt,
          err |-> Wrap(reply.err, "error computing loopp keystore signature"),
          decodes |-> <<>>]
    ELSE [x |-> Decode(reply.bytes).x, y |-> Decode(reply.bytes).y,
          err |-> Decode(reply.bytes).err, decodes |-> <<reply.bytes>>]

\* StarknetLooppSigner.Sign, line 225: is this call an existence probe
\* the probe test taken as "the digest is empty"
IsProbe_Empty(hash) == Len(hash.b) = 0

IsProbe(hash) == hash.isNil

\* StarknetLooppSigner.Sign, lines 235-239: the bytes of the pair (x, y)
\* the encoding with the two components handed over in the other order
EncodeSignature_Swapped(x, y) ==
  IF SignatureFromBigInts(y, x).err # nil
    THEN [bytes |-> NilBytes, err |-> SignatureFromBigInts(y, x).err]
    ELSE SigBytes(SignatureFromBigInts(y, x))

EncodeSignature(x, y) ==
  IF SignatureFromBigInts(x, y).err # nil
    THEN [bytes |-> NilBytes, err |-> SignatureFromBigInts(x, y).err]
    ELSE SigBytes(SignatureFromBigInts(x, y))

\* StarknetLooppSigner.Sign after its lookup: `got` is what Get returned,
\* `curve` what the primitive answers if it is invoked; `calls` lists the
\* invocations of the primitive, `encodes` the pairs handed to the encoder
\* the signer testing for the probe before it looks at the lookup's error
LooppSign_ProbeFirst(got, hash, curve) ==
  IF IsProbe(hash)
    THEN [bytes |-> NilBytes, err |-> nil, calls |-> <<>>, encodes |-> <<>>]
  ELSE IF got.err # nil
    THEN [bytes |-> NilBytes, err |-> got.err, calls |-> <<>>, encodes |-> <<>>]
  ELSE IF curve.err # nil
    THEN [bytes |-> NilBytes,
          err |-> Wrap(curve.err, "error signing data with curve"),
          calls |-> <<[hash |-> SetBytes(hash.b), priv |-> ToPrivKey(got.key),
                       x |-> curve.x, y |-> curve.y]>>,
          encodes |-> <<>>]
  ELSE [bytes |-> EncodeSignature(curve.x, curve.y).bytes,
        err |-> EncodeSignature(curve.x, curve.y).err,
        calls |-> <<[hash |-> SetBytes(hash.b), priv |-> ToPrivKey(got.key),
                     x |-> curve.x, y |-> curve.y]>>,
        encodes |-> <<<<curve.x, curve.y>>>>]

LooppSign(got, hash, curve) ==
  IF got.err # nil
    THEN [bytes |-> NilBytes, err |-> got.err, calls |-> <<>>, encodes |-> <<>>]
  ELSE IF IsProbe(hash)
    THEN [bytes |-> NilBytes, err |-> nil, calls |-> <<>>, encodes |-> <<>>]
  ELSE IF curve.err # nil
    THEN [bytes |-> NilBytes,
          err |-> Wrap(curve.err, "error signing data with curve"),
          calls |-> <<[hash |-> SetBytes(hash.b), priv |-> ToPrivKey(got.key),
                       x |-> curve.x, y |-> curve.y]>>,
          encodes |-> <<>>]
  ELSE [bytes |-> EncodeSignature(curve.x, curve.y).bytes,
        err |-> EncodeSignature(curve.x, curve.y).err,
        calls |-> <<[hash |-> SetBytes(hash.b), priv |-> ToPrivKey(got.key),
                     x |-> curve.x, y |-> curve.y]>>,
        encodes |-> <<<<curve.x, curve.y>>>>]

-----------------------------------------------------------------------------
\* The callers. Each runs one call at a time: it blocks on the ring's lock
\* ("wait"), runs the method body while holding it ("held"), and has the
\* result in `ret` once the method has returned ("done"). A signer call is in
\* "sign" between the return of its Get and its own return; an adapter call
\* over a remote signer is in "remote" until that signer answers. The caller
\* takes its result (Return) before it calls again.

Hashes == {NilBytes, Bytes(<<>>), Bytes(<<7>>)}
Digests == {0, 258}

\* what the wrapped generic signer of a keystoreAdapter may answer
ErrRemote == Err("RemoteFailed", NoId)
RemoteReplies ==
  {[bytes |-> NilBytes, err |-> nil],
   [bytes |-> Bytes(<<>>), err |-> nil],
   [bytes |-> Bytes(<<1>>), err |-> nil],
   [bytes |-> Bytes([i \in 1..(2 * FieldWidth) |-> i]), err |-> nil],
   [bytes |-> NilBytes, err |-> ErrRemote]}

CallRec(op, id, key, keyJSON, password, hash, digest) ==
  [op |-> op, id |-> id, key |-> key, keyJSON |-> keyJSON, password |-> password,
   hash |-> hash, digest |-> digest]

NoCall == CallRec("none", NoId, ZeroKey, NilBytes, "pw", NilBytes, 0)

Calls ==
  {CallRec("Get", id, ZeroKey, NilBytes, "pw", NilBytes, 0) : id \in Ids}
  \cup {CallRec(op, NoId, ZeroKey, NilBytes, "pw", NilBytes, 0) :
          op \in {"GetAll", "Create", "EnsureKey"}}
  \cup {CallRec("Add", NoId, k, NilBytes, "pw", NilBytes, 0) : k \in Keys}
  \cup {CallRec("Delete", id, ZeroKey, NilBytes, "pw", NilBytes, 0) : id \in Ids}
  \cup {CallRec("Import", NoId, ZeroKey, b, w, NilBytes, 0) : b \in Blobs, w \in Passwords}
  \cup {CallRec("Export", id, ZeroKey, NilBytes, w, NilBytes, 0) : id \in Ids, w \in Passwords}
  \cup {CallRec("Sign", id, ZeroKey, NilBytes, "pw", h, 0) : id \in Ids, h \in Hashes}
  \cup {CallRec("AdapterSign", id, ZeroKey, NilBytes, "pw", HashBytes(d), d) :
          id \in Ids, d \in Digests}
  \cup {CallRec("AdapterRemote", NoId, ZeroKey, NilBytes, "pw", HashBytes(d), d) :
          d \in {258}}

\* the methods that take the exclusive lock (lock.Lock); the others that touch
\* the ring take the shared lock (lock.RLock), the signers through Get
\* Create taking the shared lock
LockKind_CreateShared(op) ==
  IF op \in {"Add", "Delete", "Import", "EnsureKey"} THEN "exclusive"
  ELSE IF op \in {"Get", "GetAll", "Export", "Sign", "AdapterSign", "Create"} THEN "shared"
  ELSE "none"

\* Delete taking the shared lock
LockKind_DeleteShared(op) ==
  IF op \in {"Create", "Add", "Import", "EnsureKey"} THEN "exclusive"
  ELSE IF op \in {"Get", "GetAll", "Export", "Sign", "AdapterSign", "Delete"} THEN "shared"
  ELSE "none"

\* Add and EnsureKey taking the shared lock
LockKind_AddShared(op) ==
  IF op \in {"Create", "Delete", "Import"} THEN "exclusive"
  ELSE IF op \in {"Get", "GetAll", "Export", "Sign", "AdapterSign", "Add", "EnsureKey"}
    THEN "shared"
  ELSE "none"

LockKind(op) ==
  IF op \in {"Create", "Add", "Delete", "Import", "EnsureKey"} THEN "exclusive"
  ELSE IF op \in {"Get", "GetAll", "Export", "Sign", "AdapterSign"} THEN "shared"
  ELSE "none"

RetInit ==
  [err |-> nil, key |-> ZeroKey, keys |-> <<>>, bytes |-> NilBytes,
   x |-> NilInt, y |-> NilInt,
   pre |-> EmptyRing, post |-> EmptyRing, lockedAt |-> FALSE,
   calls |-> <<>>, atCurve |-> FALSE,
   encodes |-> <<>>, signer |-> nil, decodes |-> <<>>]

\* sync.RWMutex
CanRLock(m) == m.writer = NoProc
CanLock(m) == m.writer = NoProc /\ m.readers = {}
RLocked(m, p) == [m EXCEPT !.readers = @ \cup {p}]
Locked(m, p) == [m EXCEPT !.writer = p]
RUnlocked(m, p) == [m EXCEPT !.readers = @ \ {p}]
\* an Unlock that leaves the lock as it is
Unlocked_Leak(m, p) == m

Unlocked(m, p) == [m EXCEPT !.writer = NoProc]

\* newStarkNetKeyStore wraps the key manager it is given, whatever its ring
\* holds and whether or not it is locked
Init ==
  /\ \E S \in SUBSET Keys : keyRing = RingOf(S)
  /\ locked \in BOOLEAN
  /\ rw = [writer |-> NoProc, readers |-> {}]
  /\ pc = [p \in Procs |-> "idle"]
  /\ call = [p \in Procs |-> NoCall]
  /\ ret = [p \in Procs |-> RetInit]

\* the key manager is unsealed: the locked flag is cleared; the flag is
\* independent of the ring and of the ring's lock
UnlockStore ==
  /\ locked
  /\ locked' = FALSE
  /\ UNCHANGED <<keyRing, rw, pc, call, ret>>

\* a caller starts a call
Call(p) ==
  /\ pc[p] = "idle"
  /\ \E c \in Calls :
       /\ call' = [call EXCEPT ![p] = c]
       /\ pc' = [pc EXCEPT ![p] = IF c.op = "AdapterRemote" THEN "remote" ELSE "wait"]
  /\ UNCHANGED <<keyRing, locked, rw, ret>>

\* the caller takes the result of its call
Return(p) ==
  /\ pc[p] = "done"
  /\ pc' = [pc EXCEPT ![p] = "idle"]
  /\ call' = [call EXCEPT ![p] = NoCall]
  /\ ret' = [ret EXCEPT ![p] = RetInit]
  /\ UNCHANGED <<keyRing, locked, rw>>

\* ks.lock.RLock()
RLock(p) ==
  /\ pc[p] = "wait"
  /\ LockKind(call[p].op) = "shared"
  /\ CanRLock(rw)
  /\ rw' = RLocked(rw, p)
  /\ pc' = [pc EXCEPT ![p] = "held"]
  /\ UNCHANGED <<keyRing, locked, call, ret>>

\* ks.lock.Lock()
Lock(p) ==
  /\ pc[p] = "wait"
  /\ LockKind(call[p].op) = "exclusive"
  /\ CanLock(rw)
  /\ rw' = Locked(rw, p)
  /\ pc' = [pc EXCEPT ![p] = "held"]
  /\ UNCHANGED <<keyRing, locked, call, ret>>

\* the result of a method body, as the caller and the ring see it
Returned(o) ==
  [RetInit EXCEPT !.err = o.err, !.key = o.key, !.keys = o.keys, !.bytes = o.bytes,
                  !.pre = keyRing, !.post = o.ring, !.lockedAt = locked]

\* a reading method runs its body and returns (deferred RUnlock)
ReadReturn(p, o) ==
  /\ keyRing' = o.ring
  /\ ret' = [ret EXCEPT ![p] = Returned(o)]
  /\ rw' = RUnlocked(rw, p)
  /\ pc' = [pc EXCEPT ![p] = "done"]
  /\ UNCHANGED <<locked, call>>

\* a mutating method runs its body and returns (deferred Unlock)
WriteReturn(p, o) ==
  /\ keyRing' = o.ring
  /\ ret' = [ret EXCEPT ![p] = Returned(o)]
  /\ rw' = Unlocked(rw, p)
  /\ pc' = [pc EXCEPT ![p] = "done"]
  /\ UNCHANGED <<locked, call>>

RunGet(p) ==
  /\ pc[p] = "held" /\ call[p].op = "Get"
  /\ ReadReturn(p, Get(keyRing, locked, call[p].id))

RunGetAll(p) ==
  /\ pc[p] = "held" /\ call[p].op = "GetAll"
  /\ \E order \in Orders(keyRing) : ReadReturn(p, GetAll(keyRing, locked, order))

RunCreate(p) ==
  /\ pc[p] = "held" /\ call[p].op = "Create"
  /\ \E gen \in NewOutcomes, saved \in BOOLEAN :
       WriteReturn(p, Create(keyRing, locked, gen, saved))

RunAdd(p) ==
  /\ pc[p] = "held" /\ call[p].op = "Add"
  /\ \E saved \in BOOLEAN : WriteReturn(p, Add(keyRing, locked, call[p].key, saved))

RunDelete(p) ==
  /\ pc[p] = "held" /\ call[p].op = "Delete"
  /\ \E saved \in BOOLEAN : WriteReturn(p, Delete(keyRing, locked, call[p].id, saved))

RunImport(p) ==
  /\ pc[p] = "held" /\ call[p].op = "Import"
  /\ \E saved \in BOOLEAN :
       WriteReturn(p, Import(keyRing, locked, call[p].keyJSON, call[p].password, saved))

RunExport(p) ==
  /\ pc[p] = "held" /\ call[p].op = "Export"
  /\ ReadReturn(p, Export(keyRing, locked, call[p].id, call[p].password))

RunEnsureKey(p) ==
  /\ pc[p] = "held" /\ call[p].op = "EnsureKey"
  /\ \E gen \in NewOutcomes, saved \in BOOLEAN :
       WriteReturn(p, EnsureKey(keyRing, locked, gen, saved))

\* StarknetLooppSigner.Sign, line 220: lk.Get(id) runs and returns, releasing
\* the shared lock; the signer goes on with the key it was handed
SignLookup(p) ==
  /\ pc[p] = "held" /\ call[p].op \in {"Sign", "AdapterSign"}
  /\ ret' = [ret EXCEPT ![p] = Returned(Get(keyRing, locked, call[p].id))]
  /\ rw' = RUnlocked(rw, p)
  /\ pc' = [pc EXCEPT ![p] = "sign"]
  /\ UNCHANGED <<keyRing, locked, call>>

\* StarknetLooppSigner.Sign, lines 221-239, and for a call made through the
\* keystoreAdapter the adapter's decoding of the answer
SignFinish(p) ==
  /\ pc[p] = "sign"
  /\ \E r \in {LooppSign(ret[p], call[p].hash, curve) : curve \in CurveOutcomes} :
     \E a \in {AdapterSign(r)} :
          ret' = [ret EXCEPT ![p] =
                    IF call[p].op = "Sign"
                      THEN [@ EXCEPT !.err = r.err, !.bytes = r.bytes, !.key = ZeroKey,
                                     !.calls = r.calls,
                                     !.atCurve = (r.calls # <<>>
                                                    /\ call[p].id \in DOMAIN keyRing),
                                     !.encodes = r.encodes]
                      ELSE [@ EXCEPT !.err = a.err, !.bytes = r.bytes, !.key = ZeroKey,
                                     !.x = a.x, !.y = a.y,
                                     !.calls = r.calls,
                                     !.atCurve = (r.calls # <<>>
                                                    /\ call[p].id \in DOMAIN keyRing),
                                     !.encodes = r.encodes,
                                     !.signer = r.err, !.decodes = a.decodes]]
  /\ pc' = [pc EXCEPT ![p] = "done"]
  /\ UNCHANGED <<keyRing, locked, rw, call>>

\* keystoreAdapter.Sign over a generic (remote) signer
RemoteSign(p) ==
  /\ pc[p] = "remote"
  /\ \E reply \in RemoteReplies :
       ret' = [ret EXCEPT ![p] =
                 [RetInit EXCEPT !.err = AdapterSign(reply).err, !.bytes = reply.bytes,
                                 !.x = AdapterSign(reply).x, !.y = AdapterSign(reply).y,
                                 !.signer = reply.err,
                                 !.decodes = AdapterSign(reply).decodes]]
  /\ pc' = [pc EXCEPT ![p] = "done"]
  /\ UNCHANGED <<keyRing, locked, rw, call>>

Next ==
  \/ UnlockStore
  \/ \E p \in Procs : Call(p)
  \/ \E p \in Procs : Return(p)
  \/ \E p \in Procs : RLock(p)
  \/ \E p \in Procs : Lock(p)
  \/ \E p \in Procs : RunGet(p)
  \/ \E p \in Procs : RunGetAll(p)
  \/ \E p \in Procs : RunCreate(p)
  \/ \E p \in Procs : RunAdd(p)
  \/ \E p \in Procs : RunDelete(p)
  \/ \E p \in Procs : RunImport(p)
  \/ \E p \in Procs : RunExport(p)
  \/ \E p \in Procs : RunEnsureKey(p)
  \/ \E p \in Procs : SignLookup(p)
  \/ \E p \in Procs : SignFinish(p)
  \/ \E p \in Procs : RemoteSign(p)

Spec == Init /\ [][Next]_vars

\* a caller's acquisition of the lock, and its steps from there to its return
Acquire(p) == RLock(p) \/ Lock(p)
Body(p) ==
  \/ RunGet(p) \/ RunGetAll(p) \/ RunCreate(p) \/ RunAdd(p) \/ RunDelete(p)
  \/ RunImport(p) \/ RunExport(p) \/ RunEnsureKey(p)
  \/ SignLookup(p) \/ SignFinish(p) \/ RemoteSign(p)

\* The callers under fair scheduling, with one identifier, key and blob to
\* call the methods with
FairCalls ==
  {c \in Calls :
     /\ c.id \in {NoId, ID(Key(1))}
     /\ c.key \in {ZeroKey, Key(1)}
     /\ c.keyJSON \in {NilBytes, ToEncryptedJSON(Key(1), "pw").bytes}
     /\ c.hash \in {NilBytes, Bytes(<<7>>), HashBytes(258)}}

FairCall(p) ==
  /\ pc[p] = "idle"
  /\ \E c \in FairCalls :
       /\ call' = [call EXCEPT ![p] = c]
       /\ pc' = [pc EXCEPT ![p] = IF c.op = "AdapterRemote" THEN "remote" ELSE "wait"]
  /\ UNCHANGED <<keyRing, locked, rw, ret>>

FairNext ==
  \/ UnlockStore
  \/ \E p \in Procs : FairCall(p)
  \/ \E p \in Procs : Return(p)
  \/ \E p \in Procs : RLock(p)
  \/ \E p \in Procs : Lock(p)
  \/ \E p \in Procs : RunGet(p)
  \/ \E p \in Procs : RunGetAll(p)
  \/ \E p \in Procs : RunCreate(p)
  \/ \E p \in Procs : RunAdd(p)
  \/ \E p \in Procs : RunDelete(p)
  \/ \E p \in Procs : RunImport(p)
  \/ \E p \in Procs : RunExport(p)
  \/ \E p \in Procs : RunEnsureKey(p)
  \/ \E p \in Procs : SignLookup(p)
  \/ \E p \in Procs : SignFinish(p)
  \/ \E p \in Procs : RemoteSign(p)

\* Fair scheduling: a caller that is running keeps running, results are
\* taken, and sync.RWMutex lets no caller that asks for the lock starve
FairSpec ==
  /\ Init /\ [][FairNext]_vars
  /\ \A p \in Procs : WF_vars(Return(p))
  /\ \A p \in Procs : SF_vars(Acquire(p))
  /\ \A p \in Procs : WF_vars(Body(p))

-----------------------------------------------------------------------------
\* The race of the mutating methods. The callers start together on an unlocked
\* empty ring and make one call each. A method body is taken in two steps, as
\* the code takes it: it reads the ring for its check (the locked flag, the
\* presence of the identifier, the size of the ring), and later writes what it
\* decided on that reading into the ring as it then is, and returns.

RaceProcs == Procs \cup {"p3"}

RaceCalls ==
  {c \in Calls : c.op \in {"EnsureKey", "Add", "Delete", "Get"}}

InitRace ==
  /\ keyRing = EmptyRing
  /\ locked = FALSE
  /\ rw = [writer |-> NoProc, readers |-> {}]
  /\ pc = [p \in RaceProcs |-> "idle"]
  /\ call = [p \in RaceProcs |-> NoCall]
  /\ ret = [p \in RaceProcs |-> RetInit]

RaceCall(p) ==
  /\ pc[p] = "idle"
  /\ \E c \in RaceCalls : call' = [call EXCEPT ![p] = c]
  /\ pc' = [pc EXCEPT ![p] = "wait"]
  /\ UNCHANGED <<keyRing, locked, rw, ret>>

\* the body reads the locked flag and the ring
RaceCheck(p) ==
  /\ pc[p] = "held"
  /\ ret' = [ret EXCEPT ![p] = [RetInit EXCEPT !.pre = keyRing, !.lockedAt = locked]]
  /\ pc' = [pc EXCEPT ![p] = "checked"]
  /\ UNCHANGED <<keyRing, locked, rw, call>>

\* what the method, run alone on `ring`, can give
Outcomes(c, ring, lck) ==
  IF c.op = "EnsureKey"
    THEN {EnsureKey(ring, lck, gen, saved) : gen \in NewOutcomes, saved \in BOOLEAN}
  ELSE IF c.op = "Add" THEN {Add(ring, lck, c.key, saved) : saved \in BOOLEAN}
  ELSE IF c.op = "Delete" THEN {Delete(ring, lck, c.id, saved) : saved \in BOOLEAN}
  ELSE {Get(ring, lck, c.id)}

\* the writes that took `pre` to `post` (map insertions and deletions), made
\* to `ring`
Applied(ring, pre, post) ==
  [i \in (DOMAIN ring \ (DOMAIN pre \ DOMAIN post)) \cup (DOMAIN post \ DOMAIN pre) |->
     IF i \in DOMAIN post \ DOMAIN pre THEN post[i] ELSE ring[i]]

\* the body acts on what it read, and the deferred unlock runs
RaceInsert(p) ==
  /\ pc[p] = "checked"
  /\ \E o \in Outcomes(call[p], ret[p].pre, ret[p].lockedAt) :
       /\ keyRing' = Applied(keyRing, ret[p].pre, o.ring)
       /\ ret' = [ret EXCEPT ![p] =
                    [@ EXCEPT !.err = o.err, !.key = o.key,
                              !.post = Applied(keyRing, ret[p].pre, o.ring)]]
  /\ rw' = IF LockKind(call[p].op) = "exclusive" THEN Unlocked(rw, p)
                                                 ELSE RUnlocked(rw, p)
  /\ pc' = [pc EXCEPT ![p] = "done"]
  /\ UNCHANGED <<locked, call>>

NextRace ==
  \/ \E p \in RaceProcs : RaceCall(p)
  \/ \E p \in RaceProcs : RLock(p)
  \/ \E p \in RaceProcs : Lock(p)
  \/ \E p \in RaceProcs : RaceCheck(p)
  \/ \E p \in RaceProcs : RaceInsert(p)

SpecRace == InitRace /\ [][NextRace]_vars

-----------------------------------------------------------------------------
\* Properties. `ret[p].pre` and `ret[p].post` are the ring as the method body of
\* p's call found it and left it, `ret[p].lockedAt` the locked flag it read,
\* `ret[p].calls` the invocations of the curve primitive it made and
\* `ret[p].atCurve` whether the ring held the identifier at the moment of that
\* invocation.

Lifecycle == {"Get", "GetAll", "Create", "Add", "Delete", "Import", "Export", "EnsureKey"}
Done(p, op) == pc[p] = "done" /\ call[p].op = op

\* C1: a lifecycle method called while the store is locked returns the Locked
\* error, no key and no bytes, and leaves the ring as it was.
C1_LockGating ==
  \A p \in Procs :
    (pc[p] = "done" /\ call[p].op \in Lifecycle /\ ret[p].lockedAt) =>
      /\ ret[p].err = ErrLocked
      /\ ret[p].key = ZeroKey
      /\ ret[p].keys = <<>>
      /\ ret[p].bytes = NilBytes
      /\ ret[p].post = ret[p].pre

\* a Delete of a key that is in the ring, refused by the locked store
C1_Witness ==
  \E p \in Procs :
    /\ Done(p, "Delete") /\ ret[p].lockedAt /\ call[p].id \in DOMAIN ret[p].pre
    /\ ret[p].err = ErrLocked /\ ret[p].key = ZeroKey
    /\ ret[p].post = ret[p].pre /\ call[p].id \in DOMAIN keyRing

\* a locked store with two keys refuses GetAll, Export and Add of a new key
C1_LockedFull ==
  \E p \in Procs :
    /\ pc[p] = "done" /\ call[p].op \in {"GetAll", "Export", "Add", "Get"}
    /\ ret[p].lockedAt /\ Cardinality(DOMAIN ret[p].pre) = 2
    /\ ret[p].err = ErrLocked /\ ret[p].keys = <<>> /\ ret[p].bytes = NilBytes

\* C2 (as claimed): Add of a key whose identifier is in the ring fails with
\* AlreadyExists and changes nothing, and Add(k) followed by Add(k) succeeds
\* the first time and fails the second.
C2_Original ==
  \A p \in Procs :
    (Done(p, "Add") /\ ~ret[p].lockedAt) =>
      /\ ID(call[p].key) \in DOMAIN ret[p].pre =>
           ret[p].err = AlreadyExists(ID(call[p].key)) /\ ret[p].post = ret[p].pre
      /\ ID(call[p].key) \notin DOMAIN ret[p].pre =>
           /\ ret[p].err = nil
           /\ \A saved \in BOOLEAN :
                Add(ret[p].post, FALSE, call[p].key, saved).err
                  = AlreadyExists(ID(call[p].key))

\* C2 (amended): Add of a key whose identifier is in the ring fails with
\* AlreadyExists and changes nothing; an Add(k) that succeeded is followed by an
\* Add(k) that fails with AlreadyExists and changes nothing; an Add(k) on a ring
\* without k's identifier may itself fail, and then the ring is unchanged.
C2_Uniqueness ==
  \A p \in Procs :
    (Done(p, "Add") /\ ~ret[p].lockedAt) =>
      /\ ID(call[p].key) \in DOMAIN ret[p].pre =>
           ret[p].err = AlreadyExists(ID(call[p].key)) /\ ret[p].post = ret[p].pre
      /\ (ID(call[p].key) \notin DOMAIN ret[p].pre /\ ret[p].err = nil) =>
           /\ ID(call[p].key) \in DOMAIN ret[p].post
           /\ \A saved \in BOOLEAN :
                /\ Add(ret[p].post, FALSE, call[p].key, saved).err
                     = AlreadyExists(ID(call[p].key))
                /\ Add(ret[p].post, FALSE, call[p].key, saved).ring = ret[p].post
      /\ (ID(call[p].key) \notin DOMAIN ret[p].pre /\ ret[p].err # nil) =>
           ret[p].err # AlreadyExists(ID(call[p].key)) /\ ret[p].post = ret[p].pre

C2_Witness ==
  \E p \in Procs :
    /\ Done(p, "Add") /\ ~ret[p].lockedAt
    /\ ID(call[p].key) \in DOMAIN ret[p].pre
    /\ Cardinality(DOMAIN ret[p].pre) > 1
    /\ ret[p].err = AlreadyExists(ID(call[p].key))

\* C3 (as claimed): two EnsureKey calls in sequence on an empty ring leave
\* exactly one key, and EnsureKey on a non-empty ring succeeds and changes
\* nothing.
C3_Original ==
  \A p \in Procs :
    (Done(p, "EnsureKey") /\ ~ret[p].lockedAt) =>
      /\ ret[p].pre # EmptyRing => ret[p].err = nil /\ ret[p].post = ret[p].pre
      /\ ret[p].pre = EmptyRing =>
           \A gen \in NewOutcomes, saved \in BOOLEAN :
             Cardinality(DOMAIN EnsureKey(ret[p].post, FALSE, gen, saved).ring) = 1

\* C3 (amended): EnsureKey on a non-empty ring succeeds and changes nothing; on
\* an empty ring a call that succeeds leaves exactly one key and a call that
\* fails leaves the ring empty; so two calls in sequence leave at most one key,
\* and exactly one when either succeeded.
C3_IdempotentBootstrap ==
  \A p \in Procs :
    (Done(p, "EnsureKey") /\ ~ret[p].lockedAt) =>
      /\ ret[p].pre # EmptyRing => ret[p].err = nil /\ ret[p].post = ret[p].pre
      /\ (ret[p].pre = EmptyRing /\ ret[p].err = nil) =>
           /\ Cardinality(DOMAIN ret[p].post) = 1
           /\ \A gen \in NewOutcomes, saved \in BOOLEAN :
                /\ EnsureKey(ret[p].post, FALSE, gen, saved).err = nil
                /\ EnsureKey(ret[p].post, FALSE, gen, saved).ring = ret[p].post
      /\ (ret[p].pre = EmptyRing /\ ret[p].err # nil) =>
           /\ ret[p].post = EmptyRing
           /\ \A gen \in NewOutcomes, saved \in BOOLEAN :
                LET second == EnsureKey(ret[p].post, FALSE, gen, saved)
                IN Cardinality(DOMAIN second.ring) = IF second.err = nil THEN 1 ELSE 0

C3_Witness ==
  \E p \in Procs :
    /\ Done(p, "EnsureKey") /\ ~ret[p].lockedAt
    /\ ret[p].pre = EmptyRing /\ ret[p].err = nil
    /\ Cardinality(DOMAIN ret[p].post) = 1

\* a signer call whose lookup ran on an unlocked store
Signed(p) == Done(p, "Sign") /\ ~ret[p].lockedAt
InRing(p) == call[p].id \in DOMAIN ret[p].pre

\* C4 (as claimed): StarknetLooppSigner.Sign with a nil or a zero-length digest
\* returns empty success when the identifier is in the ring and NotFound when
\* it is not, and never invokes the curve primitive.
C4_Original ==
  \A p \in Procs :
    (Signed(p) /\ Len(call[p].hash.b) = 0) =>
      /\ ret[p].calls = <<>>
      /\ ret[p].bytes = NilBytes
      /\ ret[p].err = IF InRing(p) THEN nil ELSE KeyNotFoundError(call[p].id)

\* C4 (amended): StarknetLooppSigner.Sign with a nil digest returns empty
\* success when the identifier is in the ring and NotFound when it is not, and
\* does not invoke the curve primitive. A zero-length digest that is not nil is
\* no probe: with the identifier in the ring the primitive is invoked once, on
\* digest 0 and the key's scalar; with it absent the call fails with NotFound.
C4_ExistenceProbe ==
  \A p \in Procs :
    /\ (Signed(p) /\ call[p].hash.isNil) =>
         /\ ret[p].calls = <<>>
         /\ ret[p].bytes = NilBytes
         /\ ret[p].err = IF InRing(p) THEN nil ELSE KeyNotFoundError(call[p].id)
    /\ (Signed(p) /\ ~call[p].hash.isNil /\ Len(call[p].hash.b) = 0) =>
         IF InRing(p)
           THEN /\ Len(ret[p].calls) = 1
                /\ ret[p].calls[1].hash = 0
                /\ ret[p].calls[1].priv = ToPrivKey(ret[p].pre[call[p].id])
           ELSE /\ ret[p].calls = <<>>
                /\ ret[p].bytes = NilBytes
                /\ ret[p].err = KeyNotFoundError(call[p].id)

C4_Witness ==
  \E p \in Procs :
    /\ Signed(p) /\ call[p].hash.isNil /\ InRing(p)
    /\ ret[p].err = nil /\ ret[p].bytes = NilBytes /\ ret[p].calls = <<>>

\* C5: decoding the bytes that encode (r, s) gives (r, s) back: whenever the
\* curve primitive produced a pair of the field range, the signer call returns
\* bytes that keystoreAdapter.Decode turns into that pair, and an adapter call
\* over the signer returns that pair.
C5_RoundTrip ==
  \A p \in Procs :
    /\ (Done(p, "Sign") /\ ret[p].calls # <<>> /\ ret[p].calls[1].x # NilInt) =>
         /\ ret[p].err = nil
         /\ Decode(ret[p].bytes)
              = [x |-> ret[p].calls[1].x, y |-> ret[p].calls[1].y, err |-> nil]
    /\ (Done(p, "AdapterSign") /\ ret[p].calls # <<>> /\ ret[p].calls[1].x # NilInt) =>
         /\ ret[p].err = nil
         /\ ret[p].x = ret[p].calls[1].x
         /\ ret[p].y = ret[p].calls[1].y

C5_Witness ==
  \E p \in Procs :
    /\ Done(p, "AdapterSign") /\ ret[p].err = nil
    /\ ret[p].x = MaxField /\ ret[p].y = 256
    /\ ret[p].bytes.b = padBytes(BigIntBytes(MaxField)) \o padBytes(BigIntBytes(256))

\* a signer or adapter call that has invoked the curve primitive
Invoked(p) ==
  pc[p] = "done" /\ call[p].op \in {"Sign", "AdapterSign"} /\ ret[p].calls # <<>>

\* C6 (as claimed): the signer holds shared access from its lookup until the
\* signature is produced, so the key the primitive runs with is still the
\* ring's entry for the identifier at the moment the primitive runs.
C6_Original ==
  \A p \in Procs :
    Invoked(p) =>
      ret[p].atCurve

\* C6 (amended): the signer holds shared access for its lookup only. While a
\* caller holds the shared lock no mutating method holds the lock; the signer
\* holds no lock from the return of its lookup on; and the key the primitive
\* runs with is the ring's entry for the identifier as the lookup found it.
C6_SignLookupSerialized ==
  /\ \A p \in Procs : p \in rw.readers => rw.writer = NoProc
  /\ \A p \in Procs :
       p \in rw.readers <=> (pc[p] = "held" /\ LockKind(call[p].op) = "shared")
  /\ \A p \in Procs : pc[p] = "sign" => p \notin rw.readers /\ rw.writer # p
  /\ \A p \in Procs :
       Invoked(p) =>
         /\ ~ret[p].lockedAt
         /\ call[p].id \in DOMAIN ret[p].pre
         /\ ToPrivKey(ret[p].pre[call[p].id]) = ret[p].calls[1].priv

\* a signature produced with a key that a Delete removed after the lookup
C6_Witness ==
  \E p \in Procs :
    /\ Invoked(p) /\ ret[p].err = nil
    /\ call[p].id \in DOMAIN ret[p].pre
    /\ ~ret[p].atCurve

\* a caller inside a method body, between acquiring and releasing the lock
Inside(p) == pc[p] = "held"

\* while a caller is inside a mutating method no other caller is inside any
C7_Exclusion ==
  \A p \in Procs, q \in Procs :
    (p # q /\ Inside(p) /\ LockKind(call[p].op) = "exclusive") => ~Inside(q)

\* a caller inside a method holds the lock its method takes
C7_RingUnderLock ==
  \A p \in Procs :
    Inside(p) =>
      IF LockKind(call[p].op) = "exclusive"
        THEN rw.writer = p /\ rw.readers = {}
        ELSE p \in rw.readers /\ rw.writer = NoProc

\* C7: while a caller is inside a mutating method no other caller is inside any
\* method; a method body runs only while its caller holds the lock its method
\* takes; the ring changes only in the step of the caller that holds the
\* exclusive lock, and is read into a result only by a caller inside its
\* method.
C7_WriterExclusion ==
  /\ [](C7_Exclusion /\ C7_RingUnderLock)
  /\ [][keyRing' # keyRing =>
          \E p \in Procs :
            /\ Inside(p) /\ rw.writer = p /\ pc'[p] = "done"
            /\ LockKind(call[p].op) = "exclusive"]_vars
  /\ [][\A p \in Procs :
          ret'[p].pre # ret[p].pre => (Inside(p) \/ pc[p] = "done")]_vars

\* a caller inside a mutating method while the other waits for the lock
C7_Witness ==
  \E p \in Procs, q \in Procs :
    /\ p # q /\ Inside(p) /\ LockKind(call[p].op) = "exclusive"
    /\ pc[q] = "wait" /\ rw.writer = p

\* two callers inside reading methods at the same time
C7_ReadersTogether ==
  \E p \in Procs, q \in Procs :
    /\ p # q /\ Inside(p) /\ Inside(q)
    /\ call[p].op = "Get" /\ call[q].op = "Export"

\* C8: a signer call made to obtain a signature (a digest that is not nil)
\* returns an error or the full-width bytes of a signature; an adapter call
\* returns an error or both r and s; and when the wrapped signer answers with
\* no bytes and no error the adapter call fails.
C8_NoEmptySignature ==
  \A p \in Procs :
    /\ (Done(p, "Sign") /\ ~call[p].hash.isNil) =>
         \/ ret[p].err # nil
         \/ ~ret[p].bytes.isNil /\ Len(ret[p].bytes.b) = 2 * FieldWidth
    /\ (pc[p] = "done" /\ call[p].op \in {"AdapterSign", "AdapterRemote"}) =>
         \/ ret[p].err # nil /\ ret[p].x = NilInt /\ ret[p].y = NilInt
         \/ ret[p].err = nil /\ ret[p].x # NilInt /\ ret[p].y # NilInt
    /\ (Done(p, "AdapterRemote") /\ Len(ret[p].bytes.b) = 0) => ret[p].err # nil

C8_Witness ==
  \E p \in Procs :
    /\ Done(p, "AdapterRemote")
    /\ ret[p].bytes = Bytes(<<>>)
    /\ ret[p].err.kind = "MalformedSignature"
    /\ ret[p].x = NilInt /\ ret[p].y = NilInt

\* C9: Delete of an identifier that is not in the ring returns NotFound and no
\* key and leaves the ring unchanged, a Get of it on that ring fails with
\* NotFound, and so does every Get of an identifier the ring does not hold.
C9_DeleteAbsent ==
  \A p \in Procs :
    /\ (Done(p, "Delete") /\ ~ret[p].lockedAt /\ ~InRing(p)) =>
         /\ ret[p].err = KeyNotFoundError(call[p].id)
         /\ ret[p].key = ZeroKey
         /\ ret[p].post = ret[p].pre
         /\ Get(ret[p].post, FALSE, call[p].id).err = KeyNotFoundError(call[p].id)
    /\ (Done(p, "Get") /\ ~ret[p].lockedAt /\ ~InRing(p)) =>
         ret[p].err = KeyNotFoundError(call[p].id) /\ ret[p].key = ZeroKey

C9_Witness ==
  \E p \in Procs :
    /\ Done(p, "Delete") /\ ~ret[p].lockedAt /\ ~InRing(p)
    /\ ret[p].pre # EmptyRing
    /\ ret[p].err = KeyNotFoundError(call[p].id)

\* C10: a Delete that succeeds returns the key that was stored under the
\* identifier and removes that entry and no other; on the ring it leaves, and
\* on every ring that does not hold the identifier, Get, Export and the
\* signer's Sign fail with NotFound and the curve primitive is not invoked.
C10_DeletePresent ==
  \A p \in Procs :
    /\ (Done(p, "Delete") /\ ~ret[p].lockedAt /\ ret[p].err = nil) =>
         /\ InRing(p)
         /\ ret[p].key = ret[p].pre[call[p].id]
         /\ DOMAIN ret[p].post = DOMAIN ret[p].pre \ {call[p].id}
         /\ \A i \in DOMAIN ret[p].post : ret[p].post[i] = ret[p].pre[i]
         /\ Get(ret[p].post, FALSE, call[p].id).err = KeyNotFoundError(call[p].id)
         /\ \A w \in Passwords :
              Export(ret[p].post, FALSE, call[p].id, w).err = KeyNotFoundError(call[p].id)
         /\ \A h \in Hashes, c \in CurveOutcomes :
              /\ LooppSign(Get(ret[p].post, FALSE, call[p].id), h, c).err
                   = KeyNotFoundError(call[p].id)
              /\ LooppSign(Get(ret[p].post, FALSE, call[p].id), h, c).calls = <<>>
    /\ (pc[p] = "done" /\ call[p].op \in {"Get", "Export", "Sign"}
          /\ ~ret[p].lockedAt /\ ~InRing(p)) =>
         /\ ret[p].err = KeyNotFoundError(call[p].id)
         /\ ret[p].calls = <<>>
         /\ ret[p].bytes = NilBytes

C10_Witness ==
  \E p \in Procs :
    /\ Done(p, "Delete") /\ ~ret[p].lockedAt /\ ret[p].err = nil
    /\ Cardinality(DOMAIN ret[p].pre) > 1
    /\ Cardinality(DOMAIN ret[p].post) = Cardinality(DOMAIN ret[p].pre) - 1

\* the Import error of a blob that does not decrypt
ImportDecryptError ==
  Wrap(ErrDecrypt, "StarkNetKeyStore#ImportKey failed to decrypt key")

\* an Export that handed out a blob
Exported(p) == Done(p, "Export") /\ ~ret[p].lockedAt /\ InRing(p)

\* the blob of p's Export imported into a fresh empty unlocked ring
Reimport(p, w, saved) == Import(EmptyRing, FALSE, ret[p].bytes, w, saved)

\* C11 (as claimed): Export leaves the ring unchanged, and importing its blob
\* with the same password into a fresh empty ring succeeds, returns a key with
\* the exported key's identifier and leaves exactly that key in the ring;
\* with another password it fails with DecryptionFailed and leaves it empty.
C11_Original ==
  \A p \in Procs :
    Exported(p) =>
      /\ ret[p].err = nil /\ ret[p].post = ret[p].pre
      /\ \A saved \in BOOLEAN :
           /\ Reimport(p, call[p].password, saved).err = nil
           /\ ID(Reimport(p, call[p].password, saved).key) = call[p].id
           /\ Reimport(p, call[p].password, saved).ring
                = RingOf({ret[p].pre[call[p].id]})
           /\ \A w \in Passwords \ {call[p].password} :
                /\ Reimport(p, w, saved).err = ImportDecryptError
                /\ Reimport(p, w, saved).ring = EmptyRing

\* C11 (amended): Export leaves the ring unchanged; importing its blob with the
\* same password into a fresh empty ring returns the exported key, and either
\* succeeds and leaves exactly that key in the ring or fails with the key
\* manager's insertion error and leaves the ring empty; with another password
\* it fails with DecryptionFailed, returns no key and leaves the ring empty.
\* Every Import into an empty ring behaves so.
C11_ExportImport ==
  \A p \in Procs :
    /\ Exported(p) =>
         /\ ret[p].err = nil /\ ret[p].post = ret[p].pre
         /\ \A saved \in BOOLEAN :
              /\ Reimport(p, call[p].password, saved).key = ret[p].pre[call[p].id]
              /\ Reimport(p, call[p].password, saved).err
                   = IF saved THEN nil ELSE ErrPersist
              /\ Reimport(p, call[p].password, saved).ring
                   = IF saved THEN RingOf({ret[p].pre[call[p].id]}) ELSE EmptyRing
              /\ \A w \in Passwords \ {call[p].password} :
                   /\ Reimport(p, w, saved).err = ImportDecryptError
                   /\ Reimport(p, w, saved).key = ZeroKey
                   /\ Reimport(p, w, saved).ring = EmptyRing
    /\ (Done(p, "Import") /\ ~ret[p].lockedAt /\ ret[p].pre = EmptyRing) =>
         \A k \in Keys, w \in Passwords :
           call[p].keyJSON = ToEncryptedJSON(k, w).bytes =>
             IF call[p].password # w
               THEN ret[p].err = ImportDecryptError /\ ret[p].post = EmptyRing
               ELSE /\ ret[p].key = k
                    /\ \/ ret[p].err = nil /\ ret[p].post = RingOf({k})
                       \/ ret[p].err = ErrPersist /\ ret[p].post = EmptyRing

C11_Witness ==
  \E p \in Procs :
    /\ Done(p, "Import") /\ ~ret[p].lockedAt /\ ret[p].pre = EmptyRing
    /\ ret[p].err = nil
    /\ call[p].keyJSON = ToEncryptedJSON(ret[p].key, call[p].password).bytes
    /\ ret[p].post = RingOf({ret[p].key})

\* what decrypting the blob of p's Import gives
Decrypted(p) == FromEncryptedJSON(call[p].keyJSON, call[p].password)

\* C12: an Import whose blob decrypts to a key whose identifier is in the ring
\* fails with AlreadyExists, returns no key and leaves the ring unchanged; a
\* blob that does not decrypt fails with DecryptionFailed whether or not its
\* identifier is in the ring.
C12_ImportCollision ==
  \A p \in Procs :
    (Done(p, "Import") /\ ~ret[p].lockedAt) =>
      /\ Decrypted(p).err # nil =>
           /\ ret[p].err = ImportDecryptError
           /\ ret[p].key = ZeroKey
           /\ ret[p].post = ret[p].pre
      /\ (Decrypted(p).err = nil /\ ID(Decrypted(p).key) \in DOMAIN ret[p].pre) =>
           /\ ret[p].err = AlreadyExists(ID(Decrypted(p).key))
           /\ ret[p].key = ZeroKey
           /\ ret[p].post = ret[p].pre

\* a blob of a key in the ring imported with the wrong password
C12_Witness ==
  \E p \in Procs :
    /\ Done(p, "Import") /\ ~ret[p].lockedAt
    /\ \E k \in Keys, w \in Passwords \ {call[p].password} :
         /\ call[p].keyJSON = ToEncryptedJSON(k, w).bytes
         /\ ID(k) \in DOMAIN ret[p].pre
    /\ ret[p].err = ImportDecryptError

\* a blob of a key in the ring imported with the right password
C12_Collision ==
  \E p \in Procs :
    /\ Done(p, "Import") /\ ~ret[p].lockedAt
    /\ Decrypted(p).err = nil
    /\ ret[p].err = AlreadyExists(ID(Decrypted(p).key))

\* a call through the keystoreAdapter, over either signer, has returned
Adapted(p) == Done(p, "AdapterSign") \/ Done(p, "AdapterRemote")

\* C13 (as claimed): when the wrapped signer fails, keystoreAdapter.Sign
\* returns that error wrapped with context, no (r, s), and does not decode;
\* when the signer's bytes fail to decode, the caller receives the codec's
\* MalformedSignature error itself, not wrapped.
C13_Original ==
  \A p \in Procs :
    Adapted(p) =>
      /\ ret[p].signer # nil =>
           /\ ret[p].err = Wrap(ret[p].signer, "error computing loopp keystore signature")
           /\ ret[p].x = NilInt /\ ret[p].y = NilInt
           /\ ret[p].decodes = <<>>
      /\ (ret[p].signer = nil /\ SignatureFromBytes(ret[p].bytes).err # nil) =>
           ret[p].err = SignatureFromBytes(ret[p].bytes).err

\* C13 (amended): when the wrapped signer fails, keystoreAdapter.Sign returns
\* that error wrapped with the adapter's context, no (r, s), and does not
\* decode; when the signer succeeds its bytes are decoded once, and if they
\* fail to decode the caller receives the codec's MalformedSignature error
\* wrapped once, with Decode's context, and no (r, s).
C13_AdapterErrors ==
  \A p \in Procs :
    Adapted(p) =>
      /\ ret[p].signer # nil =>
           /\ ret[p].err = Wrap(ret[p].signer, "error computing loopp keystore signature")
           /\ ret[p].x = NilInt /\ ret[p].y = NilInt
           /\ ret[p].decodes = <<>>
      /\ ret[p].signer = nil => ret[p].decodes = <<ret[p].bytes>>
      /\ (ret[p].signer = nil /\ SignatureFromBytes(ret[p].bytes).err # nil) =>
           /\ ret[p].err.kind = "MalformedSignature"
           /\ ret[p].err = Wrap(SignatureFromBytes(ret[p].bytes).err,
                                "error creating starknet signature from raw signature")
           /\ ret[p].x = NilInt /\ ret[p].y = NilInt

\* a failing remote signer seen through the adapter
C13_Witness ==
  \E p \in Procs :
    /\ Done(p, "AdapterRemote") /\ ret[p].signer = ErrRemote
    /\ ret[p].err.wrap = <<"error computing loopp keystore signature">>

\* a signer's answer of the wrong length seen through the adapter
C13_DecodeFails ==
  \E p \in Procs :
    /\ Adapted(p) /\ ret[p].signer = nil /\ ret[p].bytes = Bytes(<<1>>)
    /\ ret[p].err.wrap = <<"error creating starknet signature from raw signature">>

\* the local signer's own failure seen through the adapter
C13_LocalFails ==
  \E p \in Procs :
    /\ Done(p, "AdapterSign") /\ ret[p].signer # nil /\ ret[p].calls # <<>>
    /\ ret[p].err.wrap = <<"error computing loopp keystore signature",
                           "error signing data with curve">>

\* what the signer itself returned to its caller
SignerErr(p) == IF call[p].op = "Sign" THEN ret[p].err ELSE ret[p].signer

\* C16: in StarknetLooppSigner.Sign the lookup precedes everything: when it
\* fails, Sign returns the store's error unchanged (Locked on a locked store,
\* even for a probe; NotFound when the identifier is absent), returns no
\* bytes, and neither the primitive nor the encoder is invoked.
C16_LookupFirst ==
  \A p \in Procs :
    (pc[p] = "done" /\ call[p].op \in {"Sign", "AdapterSign"}) =>
      /\ ret[p].lockedAt =>
           /\ SignerErr(p) = ErrLocked
           /\ ret[p].bytes = NilBytes
           /\ ret[p].calls = <<>> /\ ret[p].encodes = <<>>
      /\ (~ret[p].lockedAt /\ ~InRing(p)) =>
           /\ SignerErr(p) = KeyNotFoundError(call[p].id)
           /\ ret[p].bytes = NilBytes
           /\ ret[p].calls = <<>> /\ ret[p].encodes = <<>>
      /\ ret[p].encodes # <<>> => (~ret[p].lockedAt /\ InRing(p) /\ ret[p].calls # <<>>)

\* a probe of a locked store for an identifier that is in the ring
C16_Witness ==
  \E p \in Procs :
    /\ Done(p, "Sign") /\ ret[p].lockedAt /\ call[p].hash.isNil /\ InRing(p)
    /\ ret[p].err = ErrLocked /\ ret[p].calls = <<>> /\ ret[p].encodes = <<>>
    /\ ret[p].bytes = NilBytes

\* a signing call on a locked store for an identifier that is in the ring
C16_LockedSign ==
  \E p \in Procs :
    /\ pc[p] = "done" /\ call[p].op \in {"Sign", "AdapterSign"}
    /\ ret[p].lockedAt /\ ~call[p].hash.isNil /\ InRing(p)
    /\ SignerErr(p) = ErrLocked /\ ret[p].calls = <<>>

\* a probe and a signing call for an absent identifier on an unlocked store
C16_ProbeAbsent ==
  \E p \in Procs :
    /\ Done(p, "Sign") /\ ~ret[p].lockedAt /\ ~InRing(p) /\ call[p].hash.isNil
    /\ ret[p].err = KeyNotFoundError(call[p].id)

\* C18: digest fidelity of keystoreAdapter.Sign over StarknetLooppSigner: for
\* an identifier in the unlocked ring and a digest d >= 0, zero included, the
\* primitive is invoked exactly once, with the digest d and the scalar of the
\* key stored under the identifier, and the (r, s) it produces is what the
\* adapter returns; the zero digest is signed, not taken for a probe.
C18_DigestFidelity ==
  \A p \in Procs :
    (Done(p, "AdapterSign") /\ ~ret[p].lockedAt /\ InRing(p)) =>
      /\ Len(ret[p].calls) = 1
      /\ ret[p].calls[1].hash = call[p].digest
      /\ ret[p].calls[1].priv = ToPrivKey(ret[p].pre[call[p].id])
      /\ ret[p].calls[1].x # NilInt =>
           /\ ret[p].err = nil
           /\ ret[p].x = ret[p].calls[1].x
           /\ ret[p].y = ret[p].calls[1].y

\* the zero digest signed through the adapter
C18_Witness ==
  \E p \in Procs :
    /\ Done(p, "AdapterSign") /\ ~ret[p].lockedAt /\ InRing(p)
    /\ call[p].digest = 0 /\ Len(ret[p].calls) = 1 /\ ret[p].calls[1].hash = 0
    /\ ret[p].err = nil /\ ret[p].x = ret[p].calls[1].x /\ ret[p].x # NilInt

\* a non-zero digest signed through the adapter
C18_NonZero ==
  \E p \in Procs :
    /\ Done(p, "AdapterSign") /\ ~ret[p].lockedAt /\ InRing(p)
    /\ call[p].digest = 258 /\ Len(ret[p].calls) = 1 /\ ret[p].calls[1].hash = 258
    /\ ret[p].err = nil

\* C17: a Create, Delete or Import that returns an error returns the zero
\* key and leaves the ring unchanged, the failure of the key manager's
\* insertion or removal included.
C17_ZeroKeyOnError ==
  \A p \in Procs :
    (pc[p] = "done" /\ call[p].op \in {"Create", "Delete", "Import"}
       /\ ret[p].err # nil) =>
      /\ ret[p].key = ZeroKey
      /\ ret[p].post = ret[p].pre

\* what holds of a failed Create, Delete or Import: the ring is unchanged, and
\* the key is the zero key unless the failure is the key manager's
C17_RingOnError ==
  \A p \in Procs :
    (pc[p] = "done" /\ call[p].op \in {"Create", "Delete", "Import"}
       /\ ret[p].err # nil) =>
      /\ ret[p].post = ret[p].pre
      /\ ret[p].err # ErrPersist => ret[p].key = ZeroKey

\* a Create whose insertion failed hands the generated key back with the error
C17_KeyWithError ==
  \E p \in Procs :
    /\ Done(p, "Create") /\ ret[p].err = ErrPersist
    /\ ret[p].key # ZeroKey /\ ret[p].post = ret[p].pre

\* the keys of a sequence
Range(s) == {s[n] : n \in DOMAIN s}

\* C14: on an unlocked store GetAll returns, without error, a sequence that
\* holds every key of the ring at the time of the call exactly once (the empty
\* sequence for an empty ring) and leaves the ring unchanged; the sequence is
\* the caller's own: mutations of the ring that return later do not change it.
C14_GetAllSnapshot ==
  /\ [](\A p \in Procs :
          (Done(p, "GetAll") /\ ~ret[p].lockedAt) =>
            /\ ret[p].err = nil
            /\ Len(ret[p].keys) = Cardinality(DOMAIN ret[p].pre)
            /\ Range(ret[p].keys) = {ret[p].pre[i] : i \in DOMAIN ret[p].pre}
            /\ \A m \in DOMAIN ret[p].keys, n \in DOMAIN ret[p].keys :
                 ret[p].keys[m] = ret[p].keys[n] => m = n
            /\ ret[p].post = ret[p].pre)
  /\ [][\A p \in Procs :
          (Done(p, "GetAll") /\ pc'[p] = "done") =>
            /\ ret'[p].keys = ret[p].keys
            /\ ret'[p].pre = ret[p].pre]_vars

\* a sequence GetAll returned, held while the ring has since changed
C14_Witness ==
  \E p \in Procs, q \in Procs :
    /\ Done(p, "GetAll") /\ ~ret[p].lockedAt /\ Len(ret[p].keys) = 2
    /\ pc[q] = "done" /\ call[q].op \in {"Delete", "Add", "Create", "Import"}
    /\ ret[q].post # ret[q].pre
    /\ keyRing # ret[p].pre
    /\ Range(ret[p].keys) = {ret[p].pre[i] : i \in DOMAIN ret[p].pre}

\* GetAll on an empty unlocked ring
C14_Empty ==
  \E p \in Procs :
    /\ Done(p, "GetAll") /\ ~ret[p].lockedAt /\ ret[p].pre = EmptyRing
    /\ ret[p].keys = <<>> /\ ret[p].err = nil

\* the callers of the race that have returned, and those that have called
RaceDone == {p \in RaceProcs : pc[p] = "done"}
RaceCalled == {p \in RaceProcs : pc[p] # "idle"}

\* the orders in which the callers of D can be taken one after the other
RaceOrders(D) ==
  {s \in [1..Cardinality(D) -> D] : \A m \in DOMAIN s, n \in DOMAIN s : s[m] = s[n] => m = n}

\* p's result is one its method gives when it runs alone on the ring p read
Sequential(p) ==
  \E o \in Outcomes(call[p], ret[p].pre, FALSE) :
    o.err = ret[p].err /\ o.ring = ret[p].post

\* taken in the order s the calls lead from the empty ring to the present one,
\* each starting on the ring the one before it left
Serial(s) ==
  /\ \A n \in DOMAIN s : Sequential(s[n])
  /\ \A n \in DOMAIN s :
       ret[s[n]].pre = IF n = 1 THEN EmptyRing ELSE ret[s[n - 1]].post
  /\ keyRing = IF s = <<>> THEN EmptyRing ELSE ret[s[Len(s)]].post

\* C15 (as claimed): concurrent EnsureKey calls started on an empty ring leave
\* exactly one key in it; of concurrent Add calls with the same identifier
\* exactly one succeeds and all others fail with AlreadyExists; the ring is
\* what the calls give in some sequential order.
C15_Original ==
  /\ (RaceDone = RaceProcs /\ \A p \in RaceProcs : call[p].op = "EnsureKey") =>
       Cardinality(DOMAIN keyRing) = 1
  /\ \A k \in Keys :
       (RaceDone = RaceProcs /\ \A p \in RaceProcs : call[p].op = "Add" /\ call[p].key = k) =>
         \E p \in RaceProcs :
           /\ ret[p].err = nil
           /\ \A q \in RaceProcs \ {p} : ret[q].err = AlreadyExists(ID(k))
  /\ \E s \in RaceOrders(RaceDone) : Serial(s)

\* C15 (amended): concurrent EnsureKey calls started on an empty ring leave at
\* most one key in it, and exactly one once one of them has succeeded; of
\* concurrent Add calls with the same identifier at most one succeeds, the
\* identifier is in the ring exactly if one did, and every other fails, with
\* AlreadyExists if it read the ring after the insertion and with the key
\* manager's insertion error otherwise; at every moment the ring is what the
\* calls that have returned give in some sequential order.
C15_AtomicCheckInsert ==
  /\ (\A p \in RaceCalled : call[p].op = "EnsureKey") =>
       /\ Cardinality(DOMAIN keyRing) <= 1
       /\ (\E p \in RaceDone : ret[p].err = nil) => Cardinality(DOMAIN keyRing) = 1
       /\ Cardinality({p \in RaceDone : ret[p].post # ret[p].pre}) <= 1
  /\ \A k \in Keys :
       (\A p \in RaceCalled : call[p].op = "Add" /\ call[p].key = k) =>
         /\ Cardinality({p \in RaceDone : ret[p].err = nil}) <= 1
         /\ (\E p \in RaceDone : ret[p].err = nil) <=> ID(k) \in DOMAIN keyRing
         /\ \A p \in RaceDone :
              ret[p].err = IF ID(k) \in DOMAIN ret[p].pre THEN AlreadyExists(ID(k))
                           ELSE IF ret[p].post = ret[p].pre THEN ErrPersist
                           ELSE nil
  /\ \E s \in RaceOrders(RaceDone) : Serial(s)

\* three Add calls with one identifier: one succeeded, the others found it
C15_Witness ==
  /\ RaceDone = RaceProcs
  /\ \E k \in Keys :
       /\ \A p \in RaceProcs : call[p].op = "Add" /\ call[p].key = k
       /\ Cardinality({p \in RaceProcs : ret[p].err = nil}) = 1
       /\ Cardinality({p \in RaceProcs : ret[p].err = AlreadyExists(ID(k))}) = 2

\* three EnsureKey calls: one inserted a key, the others found the ring filled
C15_EnsureOnce ==
  /\ RaceDone = RaceProcs
  /\ \A p \in RaceProcs : call[p].op = "EnsureKey" /\ ret[p].err = nil
  /\ Cardinality(DOMAIN keyRing) = 1

\* a race of an insertion, a removal and an insertion again
C15_Mixed ==
  /\ RaceDone = RaceProcs
  /\ \E p \in RaceProcs : call[p].op = "Delete" /\ ret[p].err = nil
  /\ Cardinality({p \in RaceProcs : call[p].op = "Add" /\ ret[p].err = nil}) = 2

\* p holds the lock, either way
Holds(p) == p \in rw.readers \/ rw.writer = p

\* some caller in the middle of a call, or with a result to take, can step
CanStep == ENABLED (\E p \in Procs : Acquire(p) \/ Body(p) \/ Return(p))

\* C19: a method holds the lock only between its acquisition and its return,
\* whatever the return path, and a signer holds none while the primitive
\* runs; the lock is acquired only by a caller that holds none; some caller
\* can always step while any call is under way; and under fair scheduling
\* every call returns.
C19_LockReleaseAndProgress ==
  /\ [](\A p \in Procs : Holds(p) => pc[p] = "held")
  /\ [](rw.writer # NoProc => rw.readers = {})
  /\ []((\E p \in Procs : pc[p] # "idle") => CanStep)
  /\ [][\A p \in Procs :
          (Holds(p)' /\ ~Holds(p)) => (pc[p] = "wait" /\ pc'[p] = "held")]_vars
  /\ \A p \in Procs : (pc[p] # "idle") ~> (pc[p] = "done")

\* a method has returned an error and its lock is free for the caller waiting
C19_Witness ==
  \E p \in Procs, q \in Procs :
    /\ pc[p] = "done" /\ ret[p].err # nil /\ ~ret[p].lockedAt
    /\ LockKind(call[p].op) = "exclusive"
    /\ pc[q] = "wait" /\ LockKind(call[q].op) = "exclusive"
    /\ rw = [writer |-> NoProc, readers |-> {}]

\* an Import has returned on its decryption failure while the other caller,
\* which waited for the lock, is inside its method
C19_DecryptPath ==
  \E p \in Procs, q \in Procs :
    /\ Done(p, "Import") /\ ret[p].err = ImportDecryptError /\ ~Holds(p)
    /\ pc[q] = "held" /\ rw.writer = q

\* a signer past its lookup holds no lock while the other caller mutates
C19_SignUnlocked ==
  \E p \in Procs, q \in Procs :
    pc[p] = "sign" /\ ~Holds(p) /\ pc[q] = "held" /\ rw.writer = q

====
